---- MODULE Spec2Model ----
(***************************************************************************)
(* Verification model of the ardpie budget API (warp + sqlx + jsonwebtoken).*)
(* State: the four Postgres tables, the process environment (JWT_SECRET),   *)
(* the wall clock, the tokens minted so far, the last request served        *)
(* together with its reply, the request whose statements are in flight, and *)
(* the expense request that has passed its ownership check.                 *)
(* One action per HTTP route: the action is the whole filter chain of the   *)
(* route (with_auth, then the handler).  The handlers that run several      *)
(* statements are also given statement by statement, with other requests    *)
(* served in between and with any statement failing.                        *)
(***************************************************************************)
EXTENDS Integers, FiniteSets, Sequences, TLC

VARIABLES users, budgets, user_budgets, expenses,
          next_user_id, next_budget_id, next_expense_id,
          jwt_secret, now, ticks, issued, last, task, pending

db == <<users, budgets, user_budgets, expenses,
        next_user_id, next_budget_id, next_expense_id>>
clock == <<now, ticks>>
vars == <<users, budgets, user_budgets, expenses,
          next_user_id, next_budget_id, next_expense_id,
          jwt_secret, now, ticks, issued, last, task, pending>>

\* ---------------------------------------------------------------- bounds
MaxUsers == 2
MaxBudgets == 2
MaxExpenses == 1
MaxTicks == 3
StartTime == 100

\* ------------------------------------------------------ program constants
\* users.rs:269  Duration::from_secs(90 * 24 * 60 * 60)
TTL == 90 * 24 * 60 * 60
\* auth.rs:41  Validation::default(): jsonwebtoken's default leeway, seconds
Leeway == 60
\* auth.rs:39  unwrap_or_else(|_| "default_secret".to_string())
DefaultSecret == "default_secret"
\* the value of JWT_SECRET when the variable is set / the marker for unset
EnvSecret == "s3cret"
Unset == "unset"

\* ------------------------------------------------------------ input sets
UserIds == 1..MaxUsers
BudgetIds == 1..MaxBudgets
ExpenseIds == 1..MaxExpenses
Names == {"ann", "bob"}
Passwords == {"pw1", "pw2"}
\* users.rs:21-24
NewUser == [name : Names, password : {"pw1"}]
\* users.rs:33-36
LoginRequest == [name : Names, password : Passwords]
\* budgets.rs:16-19 NewBudget
NewBudget == {[name |-> "food", settings |-> "s1"],
              [name |-> "rent", settings |-> "s2"]}
\* expenses.rs:32-37 NewExpense
NewExpense == {[budgetid |-> b, date |-> d, description |-> "x", amount |-> d * 5] :
                  b \in BudgetIds, d \in {1, 2}}
\* expenses.rs:10-13
BudgetIdQuery == [budgetid : BudgetIds]
\* Option<Date>
None == [some |-> FALSE, date |-> 0]
Some(d) == [some |-> TRUE, date |-> d]
\* expenses.rs:15-20
GetExpenseQuery ==
    [budgetid : BudgetIds, start_date : {1, 2},
     end_date : {None} \cup {Some(d) : d \in {1, 2}}]
\* user_budgets.rs:9-12
UserBudgetAssociation == [userid : UserIds, budgetid : BudgetIds]
\* budgets.rs:21-24
UserIdQuery == [userid : UserIds]

\* ---------------------------------------------------------------- tokens
\* A bearer token as it travels in the Authorization header: either there
\* is no header, or the header does not carry a JWT, or it carries a JWT
\* with claims (user_id, exp) signed with some key.
NoToken == [kind |-> "none", user_id |-> 0, exp |-> 0, key |-> ""]
Garbage == [kind |-> "malformed", user_id |-> 0, exp |-> 0, key |-> ""]
Jwt(u, e, k) == [kind |-> "jwt", user_id |-> u, exp |-> e, key |-> k]

\* users.rs:265-270
get_expires_at == now + TTL

\* users.rs:250-263
generate_token(user_id) ==
    IF jwt_secret = Unset
      THEN [err |-> "InternalServerError", token |-> NoToken]
      ELSE [err |-> "", token |-> Jwt(user_id, get_expires_at, jwt_secret)]

\* auth.rs:39
Secret == IF jwt_secret = Unset THEN DefaultSecret ELSE jwt_secret

\* auth.rs:41  jsonwebtoken::decode with Validation::default(): the
\* signature is verified first, then exp is validated with the leeway.
decode(tok, key) ==
    IF tok.kind # "jwt" THEN "InvalidToken"
    ELSE IF tok.key # key THEN "InvalidSignature"
    ELSE IF tok.exp < now - Leeway THEN "ExpiredSignature"
    ELSE "Ok"

\* auth.rs:31-49; "ok" stands for Ok(data.claims)
with_auth(tok) ==
    IF tok.kind = "none" THEN "MissingToken"
    ELSE LET r == decode(tok, Secret) IN
         IF r = "Ok" THEN "ok"
         ELSE IF r = "ExpiredSignature" THEN "ExpiredToken"
         ELSE "InvalidToken"

\* What a client can put in the Authorization header: nothing, junk, a
\* token the service minted, or a token the client signed itself with a
\* key of its choosing (the published default or any other).
ForgedTokens ==
    {Jwt(u, e, k) : u \in UserIds, e \in {now + TTL}, k \in {DefaultSecret}}
      \cup {Jwt(1, now + TTL, "wrong")}
ReqTokens == {NoToken, Garbage} \cup issued \cup ForgedTokens

\* --------------------------------------------------------------- replies
Json(status, fields, error) ==
    [status |-> status, rej |-> "", fields |-> fields, error |-> error,
     rid |-> 0, rtok |-> NoToken, body |-> << >>]
\* Err(warp::reject::custom(e)): no reply is produced by the handler; warp
\* answers an unhandled custom rejection with status 500.
Rejected(e) ==
    [status |-> 500, rej |-> e, fields |-> {}, error |-> "",
     rid |-> 0, rtok |-> NoToken, body |-> << >>]
\* warp::reply::json(&rows), StatusCode::OK: a JSON array, one element per
\* row, in the order the query returned them
Rows(body) == [Json(200, {}, "") EXCEPT !.body = body]
\* json!({"error": "Unauthorized"}), StatusCode::UNAUTHORIZED
Unauthorized == Json(401, {"error"}, "Unauthorized")
\* users.rs:38-43 LoginResponse
LoginResponse(status, id, token) ==
    [status |-> status, rej |-> "", fields |-> {"id", "name", "token"},
     error |-> "", rid |-> id, rtok |-> token, body |-> << >>]

\* The request served last and the reply it got.
Last(op, auth, r) ==
    [op |-> op, auth |-> auth,
     status |-> r.status, rej |-> r.rej, fields |-> r.fields,
     error |-> r.error, rid |-> r.rid, rtok |-> r.rtok, body |-> r.body]

\* The four tables as a request reads them from the pool
Tables ==
    [users |-> users, budgets |-> budgets, user_budgets |-> user_budgets,
     expenses |-> expenses]
NoTables ==
    [users |-> << >>, budgets |-> << >>, user_budgets |-> {},
     expenses |-> << >>]
\* sqlx::Transaction (pool.begin()): the rows the statements run on tx have
\* inserted and deleted.  They reach the tables at tx.commit(); dropping tx
\* without a commit discards them.
NoTx ==
    [budgets_ins |-> << >>, user_budgets_ins |-> {}, expenses_del |-> {},
     user_budgets_del |-> {}, budgets_del |-> {}]
\* The handler whose statements are in flight: the handler (op), the
\* statement it runs next (pc), its path id, its request body and query
\* (arg, userid), the rows its SELECT returned and the loop index into them
\* (budgetids, i), its transaction (tx), and the tables as they were when
\* the request arrived (before).
NoTask ==
    [op |-> "none", pc |-> "", id |-> 0,
     arg |-> [name |-> "", settings |-> ""], userid |-> 0,
     budgetids |-> << >>, i |-> 0, tx |-> NoTx, before |-> NoTables]

\* A POST or PUT /expenses between its ownership check and its statement:
\* the handler (op), the claims' user_id, the path id of a PUT and the
\* request body (arg).
NoPending ==
    [op |-> "none", userid |-> 0, id |-> 0,
     arg |-> [budgetid |-> 0, date |-> 0, description |-> "", amount |-> 0]]

\* A route whose with_auth filter rejects: no handler runs, and the reply
\* is the filter's rejection whatever the route.
AuthRejects(tok) ==
    /\ with_auth(tok) # "ok"
    /\ last' = Last("with_auth", with_auth(tok), Rejected(with_auth(tok)))
    /\ UNCHANGED <<db, issued>>

\* The clients keep the newest token minted for each user.
Keep(token) == {t \in issued : t.user_id # token.user_id} \cup {token}

\* ---------------------------------------------------------------- schema
\* bcrypt::hash(password, 4) / bcrypt::verify
Hash(password) == <<"bcrypt", password>>
Verify(password, hashed) == hashed # <<>> /\ hashed = Hash(password)

\* users.name is unique
NameTaken(name, except) ==
    \E u \in DOMAIN users \ except : users[u].name = name
\* expenses.budgetid without the reference to budgets(id)
ExpenseFK_absent(budgetid) == TRUE
\* expenses.budgetid references budgets(id)
ExpenseFK(budgetid) == budgetid \in DOMAIN budgets
\* (userid, budgetid) is unique in user_budgets
PairTaken(userid, budgetid) ==
    \E r \in user_budgets : r.userid = userid /\ r.budgetid = budgetid
\* a row of user_budgets
Row(userid, budgetid) == [userid |-> userid, budgetid |-> budgetid]

\* utils.rs:37-56
user_owns_budget(user_id, budget_id) ==
    \E r \in user_budgets : r.userid = user_id /\ r.budgetid = budget_id

Remove(f, ids) == [i \in DOMAIN f \ ids |-> f[i]]

\* ----------------------------------------------------------------- users
\* users.rs:94-117  POST /users (no with_auth in the route, users.rs:63-67)
handle_create_user(new_user) ==
    /\ IF NameTaken(new_user.name, {})
         THEN /\ last' = Last("handle_create_user", "exempt",
                              Rejected("DatabaseError"))
              /\ UNCHANGED <<users, next_user_id, issued>>
         ELSE LET id == next_user_id
                  t == generate_token(id) IN
              /\ id <= MaxUsers
              /\ users' = users @@ (id :> [name |-> new_user.name,
                                           password |-> Hash(new_user.password)])
              /\ next_user_id' = id + 1
              /\ IF t.err # ""
                   THEN /\ last' = Last("handle_create_user", "exempt",
                                        Rejected(t.err))
                        /\ UNCHANGED issued
                   ELSE /\ last' = Last("handle_create_user", "exempt",
                                        LoginResponse(201, id, t.token))
                        /\ issued' = Keep(t.token)
    /\ UNCHANGED <<budgets, user_budgets, expenses, next_budget_id,
                   next_expense_id, jwt_secret, clock, task, pending>>

\* users.rs:119-147  PUT /users/{id}
\* handle_update_user without the check of id against claims.user_id
handle_update_user_of_any(id, tok, new_user) ==
    LET L(r) == Last("handle_update_user", "ok", r) IN
    /\ with_auth(tok) = "ok"
    /\ IF id \notin DOMAIN users \/ NameTaken(new_user.name, {id})
         THEN last' = L(Rejected("DatabaseError")) /\ UNCHANGED users
         ELSE /\ users' = [users EXCEPT ![id] =
                             [name |-> new_user.name,
                              password |-> Hash(new_user.password)]]
              /\ last' = L([Json(200, {"id", "name"}, "") EXCEPT !.rid = id])
    /\ UNCHANGED <<budgets, user_budgets, expenses, next_user_id,
                   next_budget_id, next_expense_id, jwt_secret, clock, task, pending, issued>>

handle_update_user(id, tok, new_user) ==
    LET op == "handle_update_user"
        uid == tok.user_id
        L(r) == Last(op, "ok", r) IN
    /\ with_auth(tok) = "ok"
    /\ IF id # uid
         THEN last' = L(Unauthorized) /\ UNCHANGED users
         ELSE IF id \notin DOMAIN users \/ NameTaken(new_user.name, {id})
           THEN last' = L(Rejected("DatabaseError")) /\ UNCHANGED users
           ELSE /\ users' = [users EXCEPT ![id] =
                               [name |-> new_user.name,
                                password |-> Hash(new_user.password)]]
                /\ last' = L([Json(200, {"id", "name"}, "") EXCEPT !.rid = id])
    /\ UNCHANGED <<budgets, user_budgets, expenses, next_user_id,
                   next_budget_id, next_expense_id, jwt_secret, clock, task, pending, issued>>

\* users.rs:158-164  SELECT budgetid FROM user_budgets WHERE userid = $1
budgetids_of(id) == {r.budgetid : r \in {x \in user_budgets : x.userid = id}}

\* handle_delete_user without step 4, the DELETE FROM user_budgets
handle_delete_user_keeps_rows(id, tok) ==
    LET uid == tok.user_id
        budgetids == budgetids_of(id)
        L(r) == Last("handle_delete_user", "ok", r) IN
    /\ with_auth(tok) = "ok"
    /\ IF id # uid
         THEN /\ last' = L(Unauthorized)
              /\ UNCHANGED <<users, budgets, user_budgets, expenses>>
         ELSE /\ expenses' = Remove(expenses,
                     {e \in DOMAIN expenses : expenses[e].budgetid \in budgetids})
              /\ budgets' = Remove(budgets, budgetids)
              /\ users' = Remove(users, {id})
              /\ last' = L(Json(200, {}, ""))
              /\ UNCHANGED user_budgets
    /\ UNCHANGED <<next_user_id, next_budget_id, next_expense_id,
                   jwt_secret, clock, task, pending, issued>>

\* users.rs:149-195  DELETE /users/{id}: the five steps of the handler run
\* to the end, every statement succeeding and no other request in between.
\* Step 2 empties the budgets of step 1, so step 3 meets no expense that
\* still references a budget it deletes.
handle_delete_user(id, tok) ==
    LET uid == tok.user_id
        budgetids == budgetids_of(id)
        L(r) == Last("handle_delete_user", "ok", r) IN
    /\ with_auth(tok) = "ok"
    /\ IF id # uid
         THEN /\ last' = L(Unauthorized)
              /\ UNCHANGED <<users, budgets, user_budgets, expenses>>
         ELSE /\ expenses' = Remove(expenses,
                     {e \in DOMAIN expenses : expenses[e].budgetid \in budgetids})
              /\ budgets' = Remove(budgets, budgetids)
              /\ user_budgets' = {r \in user_budgets : r.userid # id}
              /\ users' = Remove(users, {id})
              /\ last' = L(Json(200, {}, ""))
    /\ UNCHANGED <<next_user_id, next_budget_id, next_expense_id,
                   jwt_secret, clock, task, pending, issued>>

\* users.rs:197-248: the reply of POST /login, and the token it mints
LoginReply(login) ==
    LET found == {u \in DOMAIN users : users[u].name = login.name} IN
    IF found = {}
      THEN Json(401, {"error", "details"}, "Invalid credentials")
      ELSE LET id == CHOOSE u \in found : TRUE
               t == generate_token(id) IN
           IF ~Verify(login.password, users[id].password)
             THEN Json(401, {"error"}, "Invalid credentials")
             ELSE IF t.err # ""
               THEN Json(500, {"error", "details"}, "Internal server error")
               ELSE LoginResponse(200, id, t.token)

handle_login(login) ==
    LET r == LoginReply(login) IN
    /\ last' = Last("handle_login", "exempt", r)
    /\ issued' = IF r.status = 200 THEN Keep(r.rtok) ELSE issued
    /\ UNCHANGED <<db, jwt_secret, clock, task, pending>>

\* --------------------------------------------------------------- budgets
\* budgets.rs:131-157  POST /budgets?userid=..  The route (budgets.rs:60-65)
\* has no with_auth filter: whatever Authorization header the request
\* carries is never looked at.  Both INSERTs run in one transaction.
handle_create_budget(tok, new_budget, query) ==
    LET id == next_budget_id IN
    /\ id <= MaxBudgets
    /\ budgets' = budgets @@ (id :> new_budget)
    /\ next_budget_id' = id + 1
    /\ user_budgets' = user_budgets \cup {Row(query.userid, id)}
    /\ last' = Last("handle_create_budget", "absent",
                    [Json(201, {"id", "name", "settings"}, "") EXCEPT !.rid = id])
    /\ UNCHANGED <<users, expenses, next_user_id, next_expense_id,
                   jwt_secret, clock, task, pending, issued>>

\* budgets.rs:160-166, 191-197: SELECT userid FROM user_budgets WHERE
\* budgetid = $1 with fetch_one.  The query has no ORDER BY, so the row
\* that fetch_one returns is any one of the matching rows.
fetch_one_user_budget(id) == {r \in user_budgets : r.budgetid = id}

\* budgets.rs:159-188  PUT /budgets/{id}
handle_update_budget(id, tok, new_budget) ==
    LET uid == tok.user_id
        L(r) == Last("handle_update_budget", "ok", r) IN
    /\ with_auth(tok) = "ok"
    /\ IF fetch_one_user_budget(id) = {}
         THEN last' = L(Rejected("MyError")) /\ UNCHANGED budgets
         ELSE \E user_budget \in fetch_one_user_budget(id) :
                IF user_budget.userid # uid
                  THEN last' = L(Unauthorized) /\ UNCHANGED budgets
                  ELSE IF id \notin DOMAIN budgets
                    THEN last' = L(Rejected("MyError")) /\ UNCHANGED budgets
                    ELSE /\ budgets' = [budgets EXCEPT ![id] = new_budget]
                         /\ last' = L([Json(200, {"id", "name", "settings"}, "")
                                         EXCEPT !.rid = id])
    /\ UNCHANGED <<users, user_budgets, expenses, next_user_id, next_budget_id,
                   next_expense_id, jwt_secret, clock, task, pending, issued>>

\* handle_delete_budget without the DELETE FROM user_budgets statement
handle_delete_budget_keeps_rows(id, tok) ==
    LET uid == tok.user_id
        L(r) == Last("handle_delete_budget", "ok", r) IN
    /\ with_auth(tok) = "ok"
    /\ IF fetch_one_user_budget(id) = {}
         THEN /\ last' = L(Rejected("MyError"))
              /\ UNCHANGED <<budgets, user_budgets, expenses>>
         ELSE \E user_budget \in fetch_one_user_budget(id) :
                IF user_budget.userid # uid
                  THEN /\ last' = L(Unauthorized)
                       /\ UNCHANGED <<budgets, user_budgets, expenses>>
                  ELSE /\ expenses' = Remove(expenses,
                              {e \in DOMAIN expenses : expenses[e].budgetid = id})
                       /\ budgets' = Remove(budgets, {id})
                       /\ last' = L(Json(200, {}, ""))
                       /\ UNCHANGED user_budgets
    /\ UNCHANGED <<users, next_user_id, next_budget_id, next_expense_id,
                   jwt_secret, clock, task, pending, issued>>

\* budgets.rs:190-226  DELETE /budgets/{id}
handle_delete_budget(id, tok) ==
    LET uid == tok.user_id
        L(r) == Last("handle_delete_budget", "ok", r) IN
    /\ with_auth(tok) = "ok"
    /\ IF fetch_one_user_budget(id) = {}
         THEN /\ last' = L(Rejected("MyError"))
              /\ UNCHANGED <<budgets, user_budgets, expenses>>
         ELSE \E user_budget \in fetch_one_user_budget(id) :
                IF user_budget.userid # uid
                  THEN /\ last' = L(Unauthorized)
                       /\ UNCHANGED <<budgets, user_budgets, expenses>>
                  ELSE /\ expenses' = Remove(expenses,
                              {e \in DOMAIN expenses : expenses[e].budgetid = id})
                       /\ user_budgets' = {r \in user_budgets : r.budgetid # id}
                       /\ budgets' = Remove(budgets, {id})
                       /\ last' = L(Json(200, {}, ""))
    /\ UNCHANGED <<users, next_user_id, next_budget_id, next_expense_id,
                   jwt_secret, clock, task, pending, issued>>

\* -------------------------------------------------------------- expenses
\* expenses.rs:170-191  POST /expenses
handle_create_expense(tok, new_expense) ==
    LET uid == tok.user_id
        id == next_expense_id
        L(r) == Last("handle_create_expense", "ok", r) IN
    /\ with_auth(tok) = "ok"
    /\ IF ~user_owns_budget(uid, new_expense.budgetid)
         THEN last' = L(Unauthorized) /\ UNCHANGED <<expenses, next_expense_id>>
         ELSE IF ~ExpenseFK(new_expense.budgetid)
           THEN last' = L(Rejected("DatabaseError"))
                  /\ UNCHANGED <<expenses, next_expense_id>>
           ELSE /\ expenses' = expenses @@ (id :> new_expense)
                /\ next_expense_id' = id + 1
                /\ last' = L([Json(201, {"id", "budgetid", "date", "description",
                                         "amount"}, "") EXCEPT !.rid = id])
    /\ UNCHANGED <<users, budgets, user_budgets, next_user_id, next_budget_id,
                   jwt_secret, clock, task, pending, issued>>

\* expenses.rs:193-215  PUT /expenses/{id}
handle_update_expense(id, tok, new_expense) ==
    LET uid == tok.user_id
        L(r) == Last("handle_update_expense", "ok", r) IN
    /\ with_auth(tok) = "ok"
    /\ IF ~user_owns_budget(uid, new_expense.budgetid)
         THEN last' = L(Unauthorized) /\ UNCHANGED expenses
         ELSE IF id \notin DOMAIN expenses \/ ~ExpenseFK(new_expense.budgetid)
           THEN last' = L(Rejected("DatabaseError")) /\ UNCHANGED expenses
           ELSE /\ expenses' = [expenses EXCEPT ![id] = new_expense]
                /\ last' = L([Json(200, {"id", "budgetid", "date", "description",
                                         "amount"}, "") EXCEPT !.rid = id])
    /\ UNCHANGED <<users, budgets, user_budgets, next_user_id, next_budget_id,
                   next_expense_id, jwt_secret, clock, task, pending, issued>>

\* expenses.rs:217-236  DELETE /expenses/{id}
handle_delete_expense(id, tok) ==
    LET uid == tok.user_id
        L(r) == Last("handle_delete_expense", "ok", r) IN
    /\ with_auth(tok) = "ok"
    /\ IF id \notin DOMAIN expenses
         THEN last' = L(Rejected("DatabaseError")) /\ UNCHANGED expenses
         ELSE IF ~user_owns_budget(uid, expenses[id].budgetid)
           THEN last' = L(Unauthorized) /\ UNCHANGED expenses
           ELSE /\ expenses' = Remove(expenses, {id})
                /\ last' = L(Json(200, {}, ""))
    /\ UNCHANGED <<users, budgets, user_budgets, next_user_id, next_budget_id,
                   next_expense_id, jwt_secret, clock, task, pending, issued>>

\* ----------------------------------------------------------------- reads
\* fetch_all: the rows of a result set, in any order the query allows
RECURSIVE Orders(_)
Orders(S) ==
    IF S = {} THEN {<< >>}
    ELSE UNION {{<<x>> \o q : q \in Orders(S \ {x})} : x \in S}

\* budgets.rs:8-13 Budget
Budget(id) ==
    [id |-> id, name |-> budgets[id].name, settings |-> budgets[id].settings]

\* handle_get_budgets without WHERE ub.userid = $1
handle_get_budgets_of_all(tok) ==
    LET joined == {<<b, ub>> \in (DOMAIN budgets) \X user_budgets :
                      b = ub.budgetid} IN
    /\ with_auth(tok) = "ok"
    /\ \E q \in Orders(joined) :
          last' = Last("handle_get_budgets", "ok",
                       Rows([i \in DOMAIN q |-> Budget(q[i][1])]))
    /\ UNCHANGED <<db, jwt_secret, clock, task, pending, issued>>

\* budgets.rs:87-101  GET /budgets: budgets b JOIN user_budgets ub ON
\* b.id = ub.budgetid WHERE ub.userid = $1, one result row per joined pair
handle_get_budgets(tok) ==
    LET uid == tok.user_id
        joined == {<<b, ub>> \in (DOMAIN budgets) \X user_budgets :
                      b = ub.budgetid /\ ub.userid = uid} IN
    /\ with_auth(tok) = "ok"
    /\ \E q \in Orders(joined) :
          last' = Last("handle_get_budgets", "ok",
                       Rows([i \in DOMAIN q |-> Budget(q[i][1])]))
    /\ UNCHANGED <<db, jwt_secret, clock, task, pending, issued>>

\* budgets.rs:103-129  the handler of the route "budgets" / i32 with GET
handle_get_budget(id, tok) ==
    LET uid == tok.user_id
        L(r) == Last("handle_get_budget", "ok", r) IN
    /\ with_auth(tok) = "ok"
    /\ IF fetch_one_user_budget(id) = {}
         THEN last' = L(Rejected("MyError"))
         ELSE \E user_budget \in fetch_one_user_budget(id) :
                IF user_budget.userid # uid
                  THEN last' = L(Unauthorized)
                  ELSE IF id \notin DOMAIN budgets
                    THEN last' = L(Rejected("MyError"))
                    ELSE last' = L([Json(200, {"id", "name", "settings"}, "")
                                      EXCEPT !.rid = id,
                                             !.body = <<Budget(id)>>])
    /\ UNCHANGED <<db, jwt_secret, clock, task, pending, issued>>

\* expenses.rs:22-29 Expense
Expense(id) ==
    [id |-> id, budgetid |-> expenses[id].budgetid, date |-> expenses[id].date,
     description |-> expenses[id].description, amount |-> expenses[id].amount]

\* handle_get_expenses with date < $3 for date <= $3
handle_get_expenses_open_end(tok, query) ==
    LET uid == tok.user_id
        L(r) == Last("handle_get_expenses", "ok", r)
        selected == {e \in DOMAIN expenses :
                       /\ expenses[e].budgetid = query.budgetid
                       /\ expenses[e].date >= query.start_date
                       /\ (~query.end_date.some
                             \/ expenses[e].date < query.end_date.date)} IN
    /\ with_auth(tok) = "ok"
    /\ IF ~user_owns_budget(uid, query.budgetid)
         THEN last' = L(Unauthorized)
         ELSE \E q \in Orders(selected) :
                /\ \A i, j \in DOMAIN q :
                      i < j => expenses[q[i]].date >= expenses[q[j]].date
                /\ last' = L(Rows([i \in DOMAIN q |-> Expense(q[i])]))
    /\ UNCHANGED <<db, jwt_secret, clock, task, pending, issued>>

\* expenses.rs:126-152  GET /expenses?budgetid=..&start_date=..[&end_date=..]
\* WHERE budgetid = $1 AND date >= $2 AND ($3 IS NULL OR date <= $3)
\* ORDER BY date DESC: rows of equal date come in any order
handle_get_expenses(tok, query) ==
    LET uid == tok.user_id
        L(r) == Last("handle_get_expenses", "ok", r)
        selected == {e \in DOMAIN expenses :
                       /\ expenses[e].budgetid = query.budgetid
                       /\ expenses[e].date >= query.start_date
                       /\ (~query.end_date.some
                             \/ expenses[e].date <= query.end_date.date)} IN
    /\ with_auth(tok) = "ok"
    /\ IF ~user_owns_budget(uid, query.budgetid)
         THEN last' = L(Unauthorized)
         ELSE \E q \in Orders(selected) :
                /\ \A i, j \in DOMAIN q :
                      i < j => expenses[q[i]].date >= expenses[q[j]].date
                /\ last' = L(Rows([i \in DOMAIN q |-> Expense(q[i])]))
    /\ UNCHANGED <<db, jwt_secret, clock, task, pending, issued>>

\* SQL NULL, and a value that is not NULL
Null == [null |-> TRUE, v |-> 0]
NotNull(v) == [null |-> FALSE, v |-> v]
\* SUM(amount) over the rows ids of expenses: NULL over no rows
RECURSIVE SUM(_)
SUM(ids) ==
    IF ids = {} THEN Null
    ELSE LET e == CHOOSE x \in ids : TRUE
             rest == SUM(ids \ {e}) IN
         NotNull(expenses[e].amount + (IF rest.null THEN 0 ELSE rest.v))
COALESCE(a, b) == IF a.null THEN b ELSE a

\* handle_get_expenses_total without WHERE budgetid = $1
handle_get_expenses_total_of_all(query, tok) ==
    LET uid == tok.user_id
        L(r) == Last("handle_get_expenses_total", "ok", r)
        result == COALESCE(SUM(DOMAIN expenses), NotNull(0))
        total == IF result.null THEN 0 ELSE result.v IN
    /\ with_auth(tok) = "ok"
    /\ IF ~user_owns_budget(uid, query.budgetid)
         THEN last' = L(Unauthorized)
         ELSE last' = L(Rows(<<[total |-> total]>>))
    /\ UNCHANGED <<db, jwt_secret, clock, task, pending, issued>>

\* expenses.rs:104-124  GET /expenses/total?budgetid=..
\* SELECT COALESCE(SUM(amount), 0) FROM expenses WHERE budgetid = $1
handle_get_expenses_total(query, tok) ==
    LET uid == tok.user_id
        L(r) == Last("handle_get_expenses_total", "ok", r)
        result == COALESCE(SUM({e \in DOMAIN expenses :
                                   expenses[e].budgetid = query.budgetid}),
                           NotNull(0))
        total == IF result.null THEN 0 ELSE result.v IN
    /\ with_auth(tok) = "ok"
    /\ IF ~user_owns_budget(uid, query.budgetid)
         THEN last' = L(Unauthorized)
         ELSE last' = L(Rows(<<[total |-> total]>>))
    /\ UNCHANGED <<db, jwt_secret, clock, task, pending, issued>>

\* ---------------------------------------------------------- user_budgets
\* handle_add_association with the ownership check left out
handle_add_association_unchecked(tok, association) ==
    LET L(r) == Last("handle_add_association", "ok", r) IN
    /\ with_auth(tok) = "ok"
    /\ IF PairTaken(association.userid, association.budgetid)
         THEN last' = L(Rejected("DatabaseError")) /\ UNCHANGED user_budgets
         ELSE /\ user_budgets' = user_budgets \cup
                     {Row(association.userid, association.budgetid)}
              /\ last' = L(Json(201, {}, ""))
    /\ UNCHANGED <<users, budgets, expenses, next_user_id, next_budget_id,
                   next_expense_id, jwt_secret, clock, task, pending, issued>>

\* user_budgets.rs:51-88  POST /user_budgets
handle_add_association(tok, association) ==
    LET uid == tok.user_id
        L(r) == Last("handle_add_association", "ok", r) IN
    /\ with_auth(tok) = "ok"
    /\ IF ~user_owns_budget(uid, association.budgetid)
         THEN last' = L(Unauthorized) /\ UNCHANGED user_budgets
         ELSE IF PairTaken(association.userid, association.budgetid)
           THEN last' = L(Rejected("DatabaseError")) /\ UNCHANGED user_budgets
           ELSE /\ user_budgets' = user_budgets \cup
                       {Row(association.userid, association.budgetid)}
                /\ last' = L(Json(201, {}, ""))
    /\ UNCHANGED <<users, budgets, expenses, next_user_id, next_budget_id,
                   next_expense_id, jwt_secret, clock, task, pending, issued>>

\* handle_remove_association deleting the requester's own row instead of
\* the row the query names
handle_remove_association_self(tok, query) ==
    LET uid == tok.user_id
        L(r) == Last("handle_remove_association", "ok", r) IN
    /\ with_auth(tok) = "ok"
    /\ IF ~user_owns_budget(uid, query.budgetid)
         THEN last' = L(Unauthorized) /\ UNCHANGED user_budgets
         ELSE /\ user_budgets' = user_budgets \ {Row(uid, query.budgetid)}
              /\ last' = L(Json(200, {}, ""))
    /\ UNCHANGED <<users, budgets, expenses, next_user_id, next_budget_id,
                   next_expense_id, jwt_secret, clock, task, pending, issued>>

\* user_budgets.rs:90-127  DELETE /user_budgets?userid=..&budgetid=..
\* handle_remove_association that also deletes a budget left without
\* association, and its expenses
handle_remove_association_collecting(tok, query) ==
    LET uid == tok.user_id
        L(r) == Last("handle_remove_association", "ok", r)
        rest == user_budgets \ {Row(query.userid, query.budgetid)}
        orphans == {b \in DOMAIN budgets : \A r \in rest : r.budgetid # b} IN
    /\ with_auth(tok) = "ok"
    /\ IF ~user_owns_budget(uid, query.budgetid)
         THEN /\ last' = L(Unauthorized)
              /\ UNCHANGED <<user_budgets, budgets, expenses>>
         ELSE /\ user_budgets' = rest
              /\ budgets' = Remove(budgets, orphans)
              /\ expenses' = Remove(expenses,
                     {e \in DOMAIN expenses : expenses[e].budgetid \in orphans})
              /\ last' = L(Json(200, {}, ""))
    /\ UNCHANGED <<users, next_user_id, next_budget_id,
                   next_expense_id, jwt_secret, clock, task, pending, issued>>

handle_remove_association(tok, query) ==
    LET uid == tok.user_id
        L(r) == Last("handle_remove_association", "ok", r) IN
    /\ with_auth(tok) = "ok"
    /\ IF ~user_owns_budget(uid, query.budgetid)
         THEN last' = L(Unauthorized) /\ UNCHANGED user_budgets
         ELSE /\ user_budgets' = user_budgets \ {Row(query.userid, query.budgetid)}
              /\ last' = L(Json(200, {}, ""))
    /\ UNCHANGED <<users, budgets, expenses, next_user_id, next_budget_id,
                   next_expense_id, jwt_secret, clock, task, pending, issued>>

\* ----------------------------------------------------------------- clock
Tick ==
    /\ ticks < MaxTicks
    /\ \E d \in {1, Leeway, TTL} : now' = now + d
    /\ ticks' = ticks + 1
    /\ UNCHANGED <<db, jwt_secret, issued, last, task, pending>>

\* ---------------------------------------------------------------- routes
\* One request on each route: the with_auth filter, where the route has
\* one, and then the handler.
\* users.rs:63-67
create_user_route(new_user) == handle_create_user(new_user)
\* users.rs:82-86
login_route(lr) == handle_login(lr)
\* users.rs:69-74
update_user_route(tok, id, new_user) ==
    \/ AuthRejects(tok) /\ UNCHANGED <<jwt_secret, clock, task, pending>>
    \/ handle_update_user(id, tok, new_user)
\* users.rs:76-80
delete_user_route(tok, id) ==
    \/ AuthRejects(tok) /\ UNCHANGED <<jwt_secret, clock, task, pending>>
    \/ handle_delete_user(id, tok)
\* budgets.rs:60-65
create_budget_route(tok, new_budget, query) ==
    handle_create_budget(tok, new_budget, query)
\* budgets.rs:67-72
update_budget_route(tok, id, new_budget) ==
    \/ AuthRejects(tok) /\ UNCHANGED <<jwt_secret, clock, task, pending>>
    \/ handle_update_budget(id, tok, new_budget)
\* budgets.rs:74-78
delete_budget_route(tok, id) ==
    \/ AuthRejects(tok) /\ UNCHANGED <<jwt_secret, clock, task, pending>>
    \/ handle_delete_budget(id, tok)
\* expenses.rs:76-81
create_expense_route(tok, new_expense) ==
    \/ AuthRejects(tok) /\ UNCHANGED <<jwt_secret, clock, task, pending>>
    \/ handle_create_expense(tok, new_expense)
\* expenses.rs:83-88
update_expense_route(tok, id, new_expense) ==
    \/ AuthRejects(tok) /\ UNCHANGED <<jwt_secret, clock, task, pending>>
    \/ handle_update_expense(id, tok, new_expense)
\* expenses.rs:90-94
delete_expense_route(tok, id) ==
    \/ AuthRejects(tok) /\ UNCHANGED <<jwt_secret, clock, task, pending>>
    \/ handle_delete_expense(id, tok)
\* budgets.rs:48-52
get_budgets_route(tok) ==
    \/ AuthRejects(tok) /\ UNCHANGED <<jwt_secret, clock, task, pending>>
    \/ handle_get_budgets(tok)
\* budgets.rs:48-58, 80-81  GET /budgets/{id} goes through
\* get_budgets.or(get_budget): warp::path("budgets") matches the first
\* segment and does not require the path to end there, so get_budgets
\* takes the request whenever its with_auth accepts the token, and
\* get_budget is tried only after get_budgets has rejected
get_budget_route(tok, id) ==
    \/ handle_get_budgets(tok)
    \/ /\ with_auth(tok) # "ok"
       /\ \/ handle_get_budget(id, tok)
          \/ AuthRejects(tok) /\ UNCHANGED <<jwt_secret, clock, task, pending>>
\* expenses.rs:63-68
get_expenses_route(tok, query) ==
    \/ AuthRejects(tok) /\ UNCHANGED <<jwt_secret, clock, task, pending>>
    \/ handle_get_expenses(tok, query)
\* expenses.rs:57-61
get_expenses_total_route(query, tok) ==
    \/ AuthRejects(tok) /\ UNCHANGED <<jwt_secret, clock, task, pending>>
    \/ handle_get_expenses_total(query, tok)
\* user_budgets.rs:32-38
add_association_route(tok, association) ==
    \/ AuthRejects(tok) /\ UNCHANGED <<jwt_secret, clock, task, pending>>
    \/ handle_add_association(tok, association)
\* user_budgets.rs:40-46
remove_association_route(tok, query) ==
    \/ AuthRejects(tok) /\ UNCHANGED <<jwt_secret, clock, task, pending>>
    \/ handle_remove_association(tok, query)

create_user == \E nu \in NewUser : create_user_route(nu)
login == \E lr \in LoginRequest : login_route(lr)
update_user ==
    \E tok \in ReqTokens, id \in UserIds, nu \in NewUser :
        update_user_route(tok, id, nu)
create_budget ==
    \E tok \in ReqTokens, nb \in NewBudget, q \in UserIdQuery :
        create_budget_route(tok, nb, q)
update_budget ==
    \E tok \in ReqTokens, id \in BudgetIds, nb \in NewBudget :
        update_budget_route(tok, id, nb)
delete_budget ==
    \E tok \in ReqTokens, id \in BudgetIds : delete_budget_route(tok, id)
create_expense ==
    /\ next_expense_id <= MaxExpenses
    /\ \E tok \in ReqTokens, ne \in NewExpense : create_expense_route(tok, ne)
update_expense ==
    \E tok \in ReqTokens, id \in ExpenseIds, ne \in NewExpense :
        update_expense_route(tok, id, ne)
delete_expense ==
    \E tok \in ReqTokens, id \in ExpenseIds : delete_expense_route(tok, id)
add_association ==
    \E tok \in ReqTokens, a \in UserBudgetAssociation :
        add_association_route(tok, a)
remove_association ==
    \E tok \in ReqTokens, a \in UserBudgetAssociation :
        remove_association_route(tok, a)

\* A request with Authorization header tok on a route that carries the
\* with_auth filter.
FilteredRequest(tok) ==
    \/ \E id \in UserIds, nu \in NewUser : update_user_route(tok, id, nu)
    \/ \E id \in BudgetIds, nb \in NewBudget : update_budget_route(tok, id, nb)
    \/ \E id \in BudgetIds : delete_budget_route(tok, id)
    \/ \E ne \in NewExpense : create_expense_route(tok, ne)
    \/ \E id \in ExpenseIds, ne \in NewExpense : update_expense_route(tok, id, ne)
    \/ \E id \in ExpenseIds : delete_expense_route(tok, id)
    \/ \E a \in UserBudgetAssociation : add_association_route(tok, a)
    \/ \E a \in UserBudgetAssociation : remove_association_route(tok, a)

\* A request with Authorization header tok on any route other than
\* POST /users and POST /login.
ProtectedRequest(tok) ==
    \/ FilteredRequest(tok)
    \/ \E nb \in NewBudget, q \in UserIdQuery : create_budget_route(tok, nb, q)

Idle == Last("none", "exempt", Json(0, {}, ""))

\* main.rs:10-43: the process reads no JWT_SECRET at startup and serves
\* whether or not the variable is set; the tables start empty.
Init ==
    /\ users = << >>
    /\ budgets = << >>
    /\ user_budgets = {}
    /\ expenses = << >>
    /\ next_user_id = 1
    /\ next_budget_id = 1
    /\ next_expense_id = 1
    /\ jwt_secret \in {Unset, EnvSecret}
    /\ now = StartTime
    /\ ticks = 0
    /\ issued = {}
    /\ last = Idle
    /\ pending = NoPending
    /\ task = NoTask

\* main.rs:33-36: the routes served, with the clock standing still
Next ==
    \/ create_user \/ login \/ update_user
    \/ create_budget \/ update_budget \/ delete_budget
    \/ create_expense \/ update_expense \/ delete_expense
    \/ add_association \/ remove_association
Spec == Init /\ [][Next]_vars

\* The token life cycle: the user routes with the clock advancing
AuthNext == Tick \/ create_user \/ login \/ update_user
AuthSpec == Init /\ [][AuthNext]_vars

\* Ownership, cascades and reading back.  JWT_SECRET is set, and every
\* request on a route behind with_auth carries a token a login or a
\* registration has issued.  Each specification has the routes that write
\* the rows its handlers read, and the handlers themselves.
OwnInit == Init /\ jwt_secret = EnvSecret
\* budgets are created with one name and one settings value, which none of
\* the handlers below reads
own_create_budget ==
    \E q \in UserIdQuery :
        create_budget_route(NoToken, [name |-> "food", settings |-> "s1"], q)
\* expenses are created with one date, which the cascades do not read
own_create_expense ==
    /\ next_expense_id <= MaxExpenses
    /\ \E tok \in issued, ne \in {x \in NewExpense : x.date = 1} :
          create_expense_route(tok, ne)
own_add_association ==
    \E tok \in issued, a \in UserBudgetAssociation :
        add_association_route(tok, a)
own_remove_association ==
    \E tok \in issued, a \in UserBudgetAssociation :
        remove_association_route(tok, a)
own_delete_budget ==
    \E tok \in issued, id \in BudgetIds : delete_budget_route(tok, id)
own_delete_user ==
    \E tok \in issued, id \in UserIds : delete_user_route(tok, id)
\* a budget is shared with a registered user
share_budget ==
    \E tok \in issued,
       a \in {x \in UserBudgetAssociation : x.userid \in DOMAIN users} :
        add_association_route(tok, a)

\* granting and revoking associations
AssocNext ==
    \/ create_user \/ own_create_budget
    \/ own_add_association \/ own_remove_association
AssocSpec == OwnInit /\ [][AssocNext]_vars

\* DELETE /budgets/{id} on budgets with expenses and associations
BudgetCascadeNext ==
    \/ create_user \/ own_create_budget \/ own_create_expense
    \/ own_add_association \/ own_delete_budget
BudgetCascadeSpec == OwnInit /\ [][BudgetCascadeNext]_vars

\* DELETE /users/{id} on users with budgets of their own and shared ones
UserCascadeNext ==
    \/ create_user \/ own_create_budget \/ own_create_expense
    \/ share_budget \/ own_delete_user
UserCascadeSpec == OwnInit /\ [][UserCascadeNext]_vars

\* Reading back: expenses of both dates are created, rewritten and deleted.
MaxReadExpenses == 2
read_create_expense ==
    /\ next_expense_id <= MaxReadExpenses
    /\ \E tok \in issued, ne \in NewExpense : create_expense_route(tok, ne)
read_update_expense ==
    \E tok \in issued, id \in 1..MaxReadExpenses, ne \in NewExpense :
        update_expense_route(tok, id, ne)
read_delete_expense ==
    \E tok \in issued, id \in 1..MaxReadExpenses :
        delete_expense_route(tok, id)
get_budgets == \E tok \in issued : get_budgets_route(tok)
get_expenses ==
    \E tok \in issued, q \in GetExpenseQuery : get_expenses_route(tok, q)
get_expenses_total ==
    \E tok \in issued, q \in BudgetIdQuery :
        get_expenses_total_route(q, tok)

\* GET /budgets
BudgetsReadNext ==
    \/ create_user \/ own_create_budget \/ own_add_association
    \/ get_budgets
BudgetsReadSpec == OwnInit /\ [][BudgetsReadNext]_vars

\* GET /expenses
ExpensesReadNext ==
    \/ create_user \/ own_create_budget \/ read_create_expense
    \/ get_expenses
ExpensesReadSpec == OwnInit /\ [][ExpensesReadNext]_vars

\* GET /expenses/total
TotalNext ==
    \/ create_user \/ own_create_budget
    \/ read_create_expense \/ read_update_expense \/ read_delete_expense
    \/ get_expenses_total
TotalSpec == OwnInit /\ [][TotalNext]_vars

\* PUT and DELETE /users/{id}, on users that have budgets
own_update_user ==
    \E tok \in issued, id \in UserIds, nu \in NewUser :
        update_user_route(tok, id, nu)
UserGuardNext ==
    \/ create_user \/ own_create_budget
    \/ own_update_user \/ own_delete_user
UserGuardSpec == OwnInit /\ [][UserGuardNext]_vars

\* PUT and DELETE /budgets/{id} on budgets whose associations are revoked
own_update_budget ==
    \E tok \in issued, id \in BudgetIds :
        update_budget_route(tok, id, [name |-> "rent", settings |-> "s2"])
DenialNext ==
    \/ create_user \/ own_create_budget \/ own_remove_association
    \/ own_update_budget \/ own_delete_budget
DenialSpec == OwnInit /\ [][DenialNext]_vars

\* revoking the associations of budgets that have expenses
OrphanNext ==
    \/ create_user \/ own_create_budget \/ own_create_expense
    \/ own_remove_association
OrphanSpec == OwnInit /\ [][OrphanNext]_vars

\* Both cascades on budgets created for, and shared with, registered users
user_create_budget ==
    \E q \in {x \in UserIdQuery : x.userid \in DOMAIN users} :
        create_budget_route(NoToken, [name |-> "food", settings |-> "s1"], q)
IntegrityNext ==
    \/ create_user \/ user_create_budget \/ own_create_expense
    \/ share_budget \/ own_delete_budget \/ own_delete_user
IntegritySpec == OwnInit /\ [][IntegrityNext]_vars

\* GET /budgets/{id} on budgets of one and of several users
get_budget ==
    \E tok \in issued, id \in BudgetIds : get_budget_route(tok, id)
BudgetReadNext ==
    \/ create_user \/ own_create_budget \/ own_add_association
    \/ get_budget
BudgetReadSpec == OwnInit /\ [][BudgetReadNext]_vars

\* every request on budgets and associations, on budgets that have lost
\* their associations
UnownedNext ==
    \/ create_user \/ own_create_budget
    \/ own_add_association \/ own_remove_association
    \/ own_update_budget \/ own_delete_budget \/ own_delete_user
    \/ get_budget
UnownedSpec == OwnInit /\ [][UnownedNext]_vars

\* ------------------------------------------------- statements in flight
\* budgets.rs:131-132  POST /budgets arrives and pool.begin() returns tx
handle_create_budget_begin(new_budget, query) ==
    /\ task.op = "none"
    /\ task' = [NoTask EXCEPT !.op = "handle_create_budget",
                              !.pc = "INSERT INTO budgets",
                              !.arg = new_budget, !.userid = query.userid,
                              !.before = Tables]
    /\ UNCHANGED <<db, jwt_secret, clock, pending, issued, last>>

\* budgets.rs:134-143 with the statement run on &pool instead of &mut *tx
insert_budgets_on_pool ==
    /\ task.op = "handle_create_budget" /\ task.pc = "INSERT INTO budgets"
    /\ budgets' = budgets @@ (next_budget_id :> task.arg)
    /\ next_budget_id' = next_budget_id + 1
    /\ task' = [task EXCEPT !.id = next_budget_id,
                            !.pc = "INSERT INTO user_budgets"]
    /\ UNCHANGED <<users, user_budgets, expenses, next_user_id,
                   next_expense_id, jwt_secret, clock, pending, issued, last>>

\* budgets.rs:134-143  INSERT INTO budgets .. RETURNING id, on tx.  The id
\* comes from the sequence, which no rollback gives back.
insert_budgets ==
    /\ task.op = "handle_create_budget" /\ task.pc = "INSERT INTO budgets"
    /\ next_budget_id' = next_budget_id + 1
    /\ task' = [task EXCEPT !.id = next_budget_id,
                            !.tx.budgets_ins = next_budget_id :> task.arg,
                            !.pc = "INSERT INTO user_budgets"]
    /\ UNCHANGED <<users, budgets, user_budgets, expenses, next_user_id,
                   next_expense_id, jwt_secret, clock, pending, issued, last>>

\* budgets.rs:145-152  INSERT INTO user_budgets (userid, budgetid), on tx
insert_user_budgets ==
    /\ task.op = "handle_create_budget"
    /\ task.pc = "INSERT INTO user_budgets"
    /\ task' = [task EXCEPT !.tx.user_budgets_ins = {Row(task.userid, task.id)},
                            !.pc = "commit"]
    /\ UNCHANGED <<db, jwt_secret, clock, pending, issued, last>>

\* budgets.rs:154-156  tx.commit() and the 201 reply
commit_create_budget ==
    /\ task.op = "handle_create_budget" /\ task.pc = "commit"
    /\ budgets' = budgets @@ task.tx.budgets_ins
    /\ user_budgets' = user_budgets \cup task.tx.user_budgets_ins
    /\ last' = Last("handle_create_budget", "absent",
                    [Json(201, {"id", "name", "settings"}, "")
                       EXCEPT !.rid = task.id])
    /\ task' = NoTask
    /\ UNCHANGED <<users, expenses, next_user_id, next_budget_id,
                   next_expense_id, jwt_secret, clock, pending, issued>>

\* budgets.rs:190-206  DELETE /budgets/{id} arrives: the ownership SELECT
\* and, for the owner it returns, pool.begin()
handle_delete_budget_begin(id, tok) ==
    LET uid == tok.user_id
        L(r) == Last("handle_delete_budget", "ok", r) IN
    /\ task.op = "none"
    /\ with_auth(tok) = "ok"
    /\ IF fetch_one_user_budget(id) = {}
         THEN last' = L(Rejected("MyError")) /\ UNCHANGED task
         ELSE \E user_budget \in fetch_one_user_budget(id) :
                IF user_budget.userid # uid
                  THEN last' = L(Unauthorized) /\ UNCHANGED task
                  ELSE /\ task' = [NoTask EXCEPT
                                      !.op = "handle_delete_budget",
                                      !.pc = "DELETE FROM expenses",
                                      !.id = id, !.userid = uid,
                                      !.before = Tables]
                       /\ UNCHANGED last
    /\ UNCHANGED <<db, jwt_secret, clock, pending, issued>>

\* budgets.rs:208-211  DELETE FROM expenses WHERE budgetid = $1, on tx
delete_budget_expenses ==
    /\ task.op = "handle_delete_budget" /\ task.pc = "DELETE FROM expenses"
    /\ task' = [task EXCEPT
                  !.tx.expenses_del = {e \in DOMAIN expenses :
                                          expenses[e].budgetid = task.id},
                  !.pc = "DELETE FROM user_budgets"]
    /\ UNCHANGED <<db, jwt_secret, clock, pending, issued, last>>

\* budgets.rs:213-216  DELETE FROM user_budgets WHERE budgetid = $1, on tx
delete_budget_user_budgets ==
    /\ task.op = "handle_delete_budget"
    /\ task.pc = "DELETE FROM user_budgets"
    /\ task' = [task EXCEPT
                  !.tx.user_budgets_del = {r \in user_budgets :
                                              r.budgetid = task.id},
                  !.pc = "DELETE FROM budgets"]
    /\ UNCHANGED <<db, jwt_secret, clock, pending, issued, last>>

\* budgets.rs:218-221  DELETE FROM budgets WHERE id = $1, on tx: an error,
\* and tx dropped, when an expense the transaction has not deleted still
\* references the budget
delete_budget_budgets ==
    /\ task.op = "handle_delete_budget" /\ task.pc = "DELETE FROM budgets"
    /\ IF \E e \in DOMAIN expenses \ task.tx.expenses_del :
              expenses[e].budgetid = task.id
         THEN /\ last' = Last("handle_delete_budget", "ok", Rejected("MyError"))
              /\ task' = NoTask
         ELSE /\ task' = [task EXCEPT !.tx.budgets_del = {task.id},
                                      !.pc = "commit"]
              /\ UNCHANGED last
    /\ UNCHANGED <<db, jwt_secret, clock, pending, issued>>

\* budgets.rs:223-225  tx.commit() and the 200 reply
commit_delete_budget ==
    /\ task.op = "handle_delete_budget" /\ task.pc = "commit"
    /\ expenses' = Remove(expenses, task.tx.expenses_del)
    /\ user_budgets' = user_budgets \ task.tx.user_budgets_del
    /\ budgets' = Remove(budgets, task.tx.budgets_del)
    /\ last' = Last("handle_delete_budget", "ok", Json(200, {}, ""))
    /\ task' = NoTask
    /\ UNCHANGED <<users, next_user_id, next_budget_id, next_expense_id,
                   jwt_secret, clock, pending, issued>>

\* the statement a DELETE /users/{id} runs after the one at (pc, i)
AfterSelect(budgetids) ==
    IF Len(budgetids) = 0 THEN "DELETE FROM user_budgets"
    ELSE "DELETE FROM expenses"

\* users.rs:149-164  DELETE /users/{id} arrives: the id check and step 1,
\* the SELECT of the user's budget ids, kept in the order it returned them
handle_delete_user_begin(id, tok) ==
    LET uid == tok.user_id
        L(r) == Last("handle_delete_user", "ok", r) IN
    /\ task.op = "none"
    /\ with_auth(tok) = "ok"
    /\ IF id # uid
         THEN last' = L(Unauthorized) /\ UNCHANGED task
         ELSE \E budgetids \in Orders(budgetids_of(id)) :
                /\ task' = [NoTask EXCEPT !.op = "handle_delete_user",
                                          !.pc = AfterSelect(budgetids),
                                          !.id = id, !.budgetids = budgetids,
                                          !.i = 1, !.before = Tables]
                /\ UNCHANGED last
    /\ UNCHANGED <<db, jwt_secret, clock, pending, issued>>

\* users.rs:167-172  step 2, one turn of the loop:
\* DELETE FROM expenses WHERE budgetid = $1, on the pool
delete_user_expenses ==
    LET budgetid == task.budgetids[task.i] IN
    /\ task.op = "handle_delete_user" /\ task.pc = "DELETE FROM expenses"
    /\ expenses' = Remove(expenses, {e \in DOMAIN expenses :
                                        expenses[e].budgetid = budgetid})
    /\ task' = IF task.i < Len(task.budgetids)
                 THEN [task EXCEPT !.i = task.i + 1]
                 ELSE [task EXCEPT !.pc = "DELETE FROM budgets", !.i = 1]
    /\ UNCHANGED <<users, budgets, user_budgets, next_user_id, next_budget_id,
                   next_expense_id, jwt_secret, clock, pending, issued, last>>

\* users.rs:175-180  step 3, one turn of the loop:
\* DELETE FROM budgets WHERE id = $1, on the pool; an error, and the
\* handler returns, when an expense still references the budget
delete_user_budgets ==
    LET budgetid == task.budgetids[task.i] IN
    /\ task.op = "handle_delete_user" /\ task.pc = "DELETE FROM budgets"
    /\ IF \E e \in DOMAIN expenses : expenses[e].budgetid = budgetid
         THEN /\ last' = Last("handle_delete_user", "ok",
                              Rejected("DatabaseError"))
              /\ task' = NoTask
              /\ UNCHANGED budgets
         ELSE /\ budgets' = Remove(budgets, {budgetid})
              /\ task' = IF task.i < Len(task.budgetids)
                           THEN [task EXCEPT !.i = task.i + 1]
                           ELSE [task EXCEPT !.pc = "DELETE FROM user_budgets"]
              /\ UNCHANGED last
    /\ UNCHANGED <<users, user_budgets, expenses, next_user_id,
                   next_budget_id, next_expense_id, jwt_secret, clock, pending, issued>>

\* users.rs:183-186  step 4: DELETE FROM user_budgets WHERE userid = $1
delete_user_user_budgets ==
    /\ task.op = "handle_delete_user"
    /\ task.pc = "DELETE FROM user_budgets"
    /\ user_budgets' = {r \in user_budgets : r.userid # task.id}
    /\ task' = [task EXCEPT !.pc = "DELETE FROM users"]
    /\ UNCHANGED <<users, budgets, expenses, next_user_id, next_budget_id,
                   next_expense_id, jwt_secret, clock, pending, issued, last>>

\* users.rs:189-194  step 5: DELETE FROM users WHERE id = $1, and the 200
\* reply
delete_user_users ==
    /\ task.op = "handle_delete_user" /\ task.pc = "DELETE FROM users"
    /\ users' = Remove(users, {task.id})
    /\ last' = Last("handle_delete_user", "ok", Json(200, {}, ""))
    /\ task' = NoTask
    /\ UNCHANGED <<budgets, user_budgets, expenses, next_user_id,
                   next_budget_id, next_expense_id, jwt_secret, clock, pending, issued>>

\* The statement in flight returns Err (the connection is lost, the pool
\* times out, the server refuses it) and `?` returns from the handler.
\* budgets.rs: map_err(|_| reject::custom(MyError)), and tx is dropped
\* uncommitted; users.rs: map_err(.. ServiceError::DatabaseError(err)),
\* and what the earlier statements did on the pool stays done.
statement_fails ==
    /\ task.op # "none"
    /\ last' = IF task.op = "handle_delete_user"
                 THEN Last(task.op, "ok", Rejected("DatabaseError"))
                 ELSE IF task.op = "handle_delete_budget"
                   THEN Last(task.op, "ok", Rejected("MyError"))
                   ELSE Last(task.op, "absent", Rejected("MyError"))
    /\ task' = NoTask
    /\ UNCHANGED <<db, jwt_secret, clock, pending, issued>>

\* Postgres row locks: a statement on the pool waits for the transaction
\* in flight when it needs a budgets row that the transaction has deleted
\* (the foreign key check of an INSERT or UPDATE of expenses) or an
\* expenses row that it has deleted.
BudgetRowLocked(budgetid) == budgetid \in task.tx.budgets_del
ExpenseRowLocked(id) == id \in task.tx.expenses_del

\* expenses.rs:170-176  POST /expenses arrives: the ownership check
handle_create_expense_begin(tok, new_expense) ==
    LET uid == tok.user_id
        L(r) == Last("handle_create_expense", "ok", r) IN
    /\ pending.op = "none"
    /\ with_auth(tok) = "ok"
    /\ IF ~user_owns_budget(uid, new_expense.budgetid)
         THEN last' = L(Unauthorized) /\ UNCHANGED pending
         ELSE /\ pending' = [NoPending EXCEPT !.op = "handle_create_expense",
                                              !.userid = uid,
                                              !.arg = new_expense]
              /\ UNCHANGED last
    /\ UNCHANGED <<db, jwt_secret, clock, task, issued>>

\* expenses.rs:178-190  INSERT INTO expenses .. RETURNING .., on the pool,
\* and the 201 reply
insert_expenses ==
    LET id == next_expense_id
        new_expense == pending.arg
        L(r) == Last("handle_create_expense", "ok", r) IN
    /\ pending.op = "handle_create_expense"
    /\ ~BudgetRowLocked(new_expense.budgetid)
    /\ IF ~ExpenseFK(new_expense.budgetid)
         THEN last' = L(Rejected("DatabaseError"))
                /\ UNCHANGED <<expenses, next_expense_id>>
         ELSE /\ expenses' = expenses @@ (id :> new_expense)
              /\ next_expense_id' = id + 1
              /\ last' = L([Json(201, {"id", "budgetid", "date", "description",
                                       "amount"}, "") EXCEPT !.rid = id])
    /\ pending' = NoPending
    /\ UNCHANGED <<users, budgets, user_budgets, next_user_id, next_budget_id,
                   jwt_secret, clock, task, issued>>

\* expenses.rs:193-199  PUT /expenses/{id} arrives: the ownership check,
\* of the budget the body names
handle_update_expense_begin(id, tok, new_expense) ==
    LET uid == tok.user_id
        L(r) == Last("handle_update_expense", "ok", r) IN
    /\ pending.op = "none"
    /\ with_auth(tok) = "ok"
    /\ IF ~user_owns_budget(uid, new_expense.budgetid)
         THEN last' = L(Unauthorized) /\ UNCHANGED pending
         ELSE /\ pending' = [NoPending EXCEPT !.op = "handle_update_expense",
                                              !.userid = uid, !.id = id,
                                              !.arg = new_expense]
              /\ UNCHANGED last
    /\ UNCHANGED <<db, jwt_secret, clock, task, issued>>

\* expenses.rs:201-214  UPDATE expenses SET budgetid = $1, .. WHERE id = $5
\* RETURNING .., on the pool, and the 200 reply
update_expenses ==
    LET id == pending.id
        new_expense == pending.arg
        L(r) == Last("handle_update_expense", "ok", r) IN
    /\ pending.op = "handle_update_expense"
    /\ ~ExpenseRowLocked(id)
    /\ ~BudgetRowLocked(new_expense.budgetid)
    /\ IF id \notin DOMAIN expenses \/ ~ExpenseFK(new_expense.budgetid)
         THEN last' = L(Rejected("DatabaseError")) /\ UNCHANGED expenses
         ELSE /\ expenses' = [expenses EXCEPT ![id] = new_expense]
              /\ last' = L([Json(200, {"id", "budgetid", "date", "description",
                                       "amount"}, "") EXCEPT !.rid = id])
    /\ pending' = NoPending
    /\ UNCHANGED <<users, budgets, user_budgets, next_user_id, next_budget_id,
                   next_expense_id, jwt_secret, clock, task, issued>>

\* The multi-statement handlers statement by statement.  While one is in
\* flight the GET routes are served on other connections of the pool.
tx_create_user == task.op = "none" /\ create_user
tx_create_expense == task.op = "none" /\ own_create_expense
tx_create_budget ==
    /\ next_budget_id <= MaxBudgets
    /\ \E q \in UserIdQuery :
          handle_create_budget_begin([name |-> "food", settings |-> "s1"], q)
tx_delete_budget ==
    \E tok \in issued, id \in BudgetIds : handle_delete_budget_begin(id, tok)
tx_delete_user ==
    \E tok \in issued, id \in UserIds : handle_delete_user_begin(id, tok)
tx_get_budgets == \E tok \in issued : handle_get_budgets(tok)
tx_get_expenses_total ==
    \E tok \in issued, q \in BudgetIdQuery : handle_get_expenses_total(q, tok)
TxNext ==
    \/ tx_create_user \/ tx_create_expense
    \/ tx_create_budget \/ insert_budgets \/ insert_user_budgets
    \/ commit_create_budget
    \/ tx_delete_budget \/ delete_budget_expenses
    \/ delete_budget_user_budgets \/ delete_budget_budgets
    \/ commit_delete_budget
    \/ tx_delete_user \/ delete_user_expenses \/ delete_user_budgets
    \/ delete_user_user_budgets \/ delete_user_users
    \/ statement_fails
    \/ tx_get_budgets \/ tx_get_expenses_total
TxSpec == OwnInit /\ [][TxNext]_vars

\* The check-then-mutate window: a POST /expenses or a DELETE /budgets/{id}
\* has passed its ownership check, and before its statements run an
\* association is revoked and further requests are served.
race_create_expense ==
    /\ next_expense_id <= MaxExpenses
    /\ \E tok \in issued, ne \in {x \in NewExpense : x.date = 1} :
          handle_create_expense_begin(tok, ne)
race_remove_association == task.tx = NoTx /\ own_remove_association
race_update_expense ==
    /\ task.tx = NoTx
    /\ \E tok \in issued, id \in ExpenseIds,
          ne \in {x \in NewExpense : x.date = 2} :
          update_expense_route(tok, id, ne)
race_update_budget == task.tx = NoTx /\ own_update_budget
RaceNext ==
    \/ create_user \/ user_create_budget
    \/ race_create_expense \/ insert_expenses
    \/ tx_delete_budget \/ delete_budget_expenses
    \/ delete_budget_user_budgets \/ delete_budget_budgets
    \/ commit_delete_budget
    \/ race_remove_association
    \/ race_update_expense \/ race_update_budget
RaceSpec == OwnInit /\ [][RaceNext]_vars

\* Both cascades statement by statement, with a POST or PUT /expenses
\* checked and run in between
cascade_update_expense ==
    \E tok \in issued, id \in ExpenseIds,
       ne \in {x \in NewExpense : x.date = 2} :
        handle_update_expense_begin(id, tok, ne)
CascadeRaceNext ==
    \/ create_user \/ user_create_budget
    \/ race_create_expense \/ insert_expenses
    \/ cascade_update_expense \/ update_expenses
    \/ tx_delete_budget \/ delete_budget_expenses
    \/ delete_budget_user_budgets \/ delete_budget_budgets
    \/ commit_delete_budget
    \/ tx_delete_user \/ delete_user_expenses \/ delete_user_budgets
    \/ delete_user_user_budgets \/ delete_user_users
CascadeRaceSpec == OwnInit /\ [][CascadeRaceNext]_vars

\* Budget creation alone, statement by statement, with GET /budgets served
\* in between
CreateNext ==
    \/ tx_create_user
    \/ tx_create_budget \/ insert_budgets \/ insert_user_budgets
    \/ commit_create_budget
    \/ statement_fails
    \/ tx_get_budgets
CreateSpec == OwnInit /\ [][CreateNext]_vars

\* ================================================================ claims

\* C1: a PUT /expenses/{id} or DELETE /expenses/{id} by an authenticated
\* user who is not associated with the budget the expense currently
\* belongs to is denied (401 Unauthorized) and leaves the expense as it
\* was, whatever budgetid the request body names.
C1_ForeignExpenseUntouched ==
    [][ /\ \A tok \in issued, id \in ExpenseIds, ne \in NewExpense :
             ( /\ last'.op = "handle_update_expense"
               /\ handle_update_expense(id, tok, ne)
               /\ id \in DOMAIN expenses
               /\ ~user_owns_budget(tok.user_id, expenses[id].budgetid) )
             => (last'.status = 401 /\ expenses' = expenses)
        /\ \A tok \in issued, id \in ExpenseIds :
             ( /\ last'.op = "handle_delete_expense"
               /\ handle_delete_expense(id, tok)
               /\ id \in DOMAIN expenses
               /\ ~user_owns_budget(tok.user_id, expenses[id].budgetid) )
             => (last'.status = 401 /\ expenses' = expenses) ]_vars

\* C2: for every budget B and every user U associated with B, also when B
\* has several associated users, a PUT /budgets/{B} or DELETE /budgets/{B}
\* by U with a valid token passes the ownership check and is performed.
C2_AnyOwnerMutatesBudget ==
    [][ /\ \A tok \in issued, id \in BudgetIds, nb \in NewBudget :
             ( /\ last'.op = "handle_update_budget"
               /\ handle_update_budget(id, tok, nb)
               /\ id \in DOMAIN budgets
               /\ user_owns_budget(tok.user_id, id) )
             => (last'.status = 200 /\ budgets' = [budgets EXCEPT ![id] = nb])
        /\ \A tok \in issued, id \in BudgetIds :
             ( /\ last'.op = "handle_delete_budget"
               /\ handle_delete_budget(id, tok)
               /\ id \in DOMAIN budgets
               /\ user_owns_budget(tok.user_id, id) )
             => (last'.status = 200 /\ id \notin DOMAIN budgets') ]_vars

\* C3: a PUT /budgets/{id} by an authenticated user who is not associated
\* with budget id gets the authorization denial (401 Unauthorized) and the
\* budget's name and settings are unchanged afterwards.
C3_NonOwnerUpdateDenied ==
    [][ \A tok \in issued, id \in BudgetIds, nb \in NewBudget :
          ( /\ last'.op = "handle_update_budget"
            /\ handle_update_budget(id, tok, nb)
            /\ id \in DOMAIN budgets
            /\ ~user_owns_budget(tok.user_id, id) )
          => ( /\ last'.status = 401
               /\ last'.error = "Unauthorized"
               /\ budgets' = budgets ) ]_vars

\* C4: on every endpoint except POST /users and POST /login, a request
\* that carries no valid token runs no handler and changes no persistent
\* state.
C4_NoTokenNoChange ==
    [][ \A tok \in ReqTokens :
          (ProtectedRequest(tok) /\ with_auth(tok) # "ok")
          => ( /\ UNCHANGED db
               /\ last'.auth \in {"MissingToken", "InvalidToken",
                                  "ExpiredToken"} ) ]_vars

\* What C5 says the middleware answers for a token: no header is
\* MissingToken; a signature that verifies with an expiry that has passed
\* is ExpiredToken; a signature that does not verify, or content that is
\* no JWT, is InvalidToken; anything else is accepted.
C5_Class(tok) ==
    IF tok.kind = "none" THEN "MissingToken"
    ELSE IF tok.kind = "jwt" /\ tok.key = Secret /\ tok.exp < now
      THEN "ExpiredToken"
    ELSE IF tok.kind # "jwt" \/ tok.key # Secret THEN "InvalidToken"
    ELSE "ok"

\* C5: the middleware puts every protected request into exactly one class:
\* MissingToken without an Authorization header, ExpiredToken for a token
\* whose signature verifies and whose expiry has passed, InvalidToken for a
\* tampered or malformed token, and otherwise the claims are attached and
\* the handler runs.
C5_AuthClassification ==
    [][ \A tok \in ReqTokens :
          FilteredRequest(tok) => last'.auth = C5_Class(tok) ]_vars

\* C6: with_auth accepts a token if and only if its signature matches the
\* signing secret and its expiry is strictly greater than the current
\* time; a token of generate_token is accepted at every time before
\* issue time + TTL and at no time at or after it.
C6_ValidIffSignedAndUnexpired ==
    [][ \A tok \in ReqTokens :
          FilteredRequest(tok)
          => ( last'.auth = "ok"
                 <=> (tok.kind = "jwt" /\ tok.key = Secret /\ tok.exp > now) )
      ]_vars

\* C7: the signing secret is required configuration: when it is absent the
\* service does not serve (it fails at startup), and token verification
\* never accepts a token signed with a built-in default secret.
C7_NoDefaultSecret ==
    [][ /\ jwt_secret = Unset => UNCHANGED vars
        /\ \A tok \in ReqTokens :
             (FilteredRequest(tok) /\ tok.key = DefaultSecret)
             => last'.auth # "ok" ]_vars

\* C8: for every (name, password) whose name is not registered, register
\* succeeds, creates exactly one user, and returns a token that the
\* middleware accepts and whose claims carry the new user's id.
C8_RegisterReturnsUsableToken ==
    [][ \A nu \in NewUser :
          ( /\ last'.op = "handle_create_user"
            /\ handle_create_user(nu)
            /\ ~NameTaken(nu.name, {}) )
          => ( /\ last'.status = 201
               /\ DOMAIN users' = DOMAIN users \cup {last'.rid}
               /\ last'.rid \notin DOMAIN users
               /\ users'[last'.rid].name = nu.name
               /\ with_auth(last'.rtok) = "ok"
               /\ last'.rtok.user_id = last'.rid ) ]_vars

\* C9: register with a name that is already taken fails with a Conflict
\* error and leaves the user table unchanged, so that after any sequence
\* of register and profile-update operations no two users share a name.
C9_DuplicateNameConflict ==
    [][ /\ \A nu \in NewUser :
             ( /\ last'.op = "handle_create_user"
               /\ handle_create_user(nu)
               /\ NameTaken(nu.name, {}) )
             => ( /\ last'.status = 409 \/ last'.rej = "Conflict"
                                        \/ last'.error = "Conflict"
                  /\ users' = users )
        /\ \A u1, u2 \in DOMAIN users' :
             users'[u1].name = users'[u2].name => u1 = u2 ]_vars

\* C10: for every (name, password), a login that fails because the name
\* does not exist and a login that fails because the password does not
\* match get identical responses: same status and same body fields.
C10_LoginFailuresIndistinguishable ==
    [][ \A l1, l2 \in LoginRequest :
          ( /\ handle_login(l1)
            /\ last'.status = 401
            /\ LoginReply(l2).status = 401 )
          => ( /\ LoginReply(l2).status = last'.status
               /\ LoginReply(l2).fields = last'.fields
               /\ LoginReply(l2).error = last'.error ) ]_vars

\* C11: for all budgets B and users U, user_owns_budget(U, B) is true in
\* the state right after a successful POST /user_budgets of (U, B) and
\* false in the state right after a successful DELETE /user_budgets of
\* (U, B).
C11_OwnsFollowsAssociation ==
    [][ \A tok \in ReqTokens, a \in UserBudgetAssociation :
          /\ ( /\ last'.op = "handle_add_association"
               /\ handle_add_association(tok, a)
               /\ last'.status = 201 )
             => user_owns_budget(a.userid, a.budgetid)'
          /\ ( /\ last'.op = "handle_remove_association"
               /\ handle_remove_association(tok, a)
               /\ last'.status = 200 )
             => ~user_owns_budget(a.userid, a.budgetid)' ]_vars
\* an association has just been removed from a budget that other rows
\* still reference
C11_Witness ==
    /\ last.op = "handle_remove_association"
    /\ last.status = 200
    /\ user_budgets # {}

\* C12: POST /user_budgets and DELETE /user_budgets insert or delete the
\* row (userid, budgetid) only when the authenticated requester is already
\* associated with budgetid; a requester who is not gets the 401 denial and
\* user_budgets is unchanged.
C12_AssociationNeedsOwner ==
    [][ \A tok \in ReqTokens, a \in UserBudgetAssociation :
          /\ ( /\ last'.op = "handle_add_association"
               /\ handle_add_association(tok, a)
               /\ ~user_owns_budget(tok.user_id, a.budgetid) )
             => (last'.status = 401 /\ user_budgets' = user_budgets)
          /\ ( /\ last'.op = "handle_remove_association"
               /\ handle_remove_association(tok, a)
               /\ ~user_owns_budget(tok.user_id, a.budgetid) )
             => (last'.status = 401 /\ user_budgets' = user_budgets) ]_vars
\* a requester without an association to the budget has just been denied
\* while the budget has an owner
C12_Witness ==
    /\ last.op \in {"handle_add_association", "handle_remove_association"}
    /\ last.status = 401
    /\ user_budgets # {}

\* C13: a successful DELETE /budgets/{B} by an owner removes all expenses
\* with budgetid B, all associations with budgetid B and the budget row B:
\* afterwards no expense and no association references B, and every other
\* budget, expense and association is as it was.
C13_BudgetCascade ==
    [][ \A tok \in ReqTokens, id \in BudgetIds :
          ( /\ last'.op = "handle_delete_budget"
            /\ handle_delete_budget(id, tok)
            /\ last'.status = 200 )
          => ( /\ id \notin DOMAIN budgets'
               /\ \A e \in DOMAIN expenses' : expenses'[e].budgetid # id
               /\ \A r \in user_budgets' : r.budgetid # id
               /\ budgets' = Remove(budgets, {id})
               /\ \A e \in DOMAIN expenses :
                     expenses[e].budgetid # id
                     => (e \in DOMAIN expenses' /\ expenses'[e] = expenses[e])
               /\ DOMAIN expenses' \subseteq DOMAIN expenses
               /\ \A r \in user_budgets :
                     r.budgetid # id => r \in user_budgets'
               /\ user_budgets' \subseteq user_budgets
               /\ users' = users ) ]_vars
\* a budget has just been deleted while other expenses and associations
\* remain
C13_Witness ==
    /\ last.op = "handle_delete_budget"
    /\ last.status = 200
    /\ user_budgets # {}
    /\ expenses # << >>

\* the budgets whose only association row is U's
C14_SolelyOwned(U) ==
    {b \in DOMAIN budgets :
        {r.userid : r \in {x \in user_budgets : x.budgetid = b}} = {U}}

\* C14: after a successful DELETE /users/{U} the user row U is gone, no
\* association row references U, no budget that U solely owned remains and
\* no expense references a budget U solely owned.
C14_UserCascade ==
    [][ ( /\ last'.op = "handle_delete_user"
          /\ last'.status = 200 )
        => \A tok \in ReqTokens, id \in UserIds :
             handle_delete_user(id, tok)
             => ( /\ id \notin DOMAIN users'
                  /\ \A r \in user_budgets' : r.userid # id
                  /\ \A b \in C14_SolelyOwned(id) : b \notin DOMAIN budgets'
                  /\ \A e \in DOMAIN expenses' :
                        expenses'[e].budgetid \notin C14_SolelyOwned(id) ) ]_vars
\* a user has just been deleted, and rows of other users remain
C14_Witness ==
    /\ last.op = "handle_delete_user"
    /\ last.status = 200
    /\ users # << >>
    /\ user_budgets # {}

\* the elements of a reply body
C18_Elements(body) == {body[i] : i \in DOMAIN body}

\* C18: GET /budgets with a valid token for user U returns exactly the
\* budgets B with (U, B) in user_budgets: every budget U is associated with
\* and no other budget.
C18_ListsOwnBudgets ==
    [][ \A tok \in ReqTokens :
          ( /\ last'.op = "handle_get_budgets"
            /\ handle_get_budgets(tok) )
          => ( /\ last'.status = 200
               /\ C18_Elements(last'.body)
                    = {Budget(b) : b \in {x \in DOMAIN budgets :
                                      Row(tok.user_id, x) \in user_budgets}} )
      ]_vars
\* a GET /budgets has just returned some budgets and left out another
C18_Witness ==
    /\ last.op = "handle_get_budgets"
    /\ last.status = 200
    /\ Len(last.body) >= 1
    /\ Len(last.body) < Cardinality(DOMAIN budgets)

\* C19: GET /expenses for budget B with start_date s and optional end_date
\* e by an owner of B returns exactly the expenses of B with s <= date, and
\* date <= e when e is given, each once, ordered by date descending; a
\* requester who does not own B gets the 401 denial and no expenses.
C19_DateRangeDescending ==
    [][ \A tok \in ReqTokens, q \in GetExpenseQuery :
          ( /\ last'.op = "handle_get_expenses"
            /\ handle_get_expenses(tok, q) )
          => IF Row(tok.user_id, q.budgetid) \in user_budgets
               THEN /\ last'.status = 200
                    /\ C18_Elements(last'.body)
                         = {Expense(x) : x \in {e \in DOMAIN expenses :
                              /\ expenses[e].budgetid = q.budgetid
                              /\ q.start_date <= expenses[e].date
                              /\ q.end_date.some
                                   => expenses[e].date <= q.end_date.date}}
                    /\ \A i, j \in DOMAIN last'.body :
                          i < j => /\ last'.body[i].date >= last'.body[j].date
                                   /\ last'.body[i] # last'.body[j]
               ELSE /\ last'.status = 401
                    /\ last'.body = << >> ]_vars
\* a GET /expenses has just returned two expenses of different dates
C19_Witness ==
    /\ last.op = "handle_get_expenses"
    /\ last.status = 200
    /\ Len(last.body) >= 2
    /\ last.body[1].date > last.body[2].date

\* the sum of the amounts of the expenses of budget b with id at most n
RECURSIVE C20_Sum(_, _)
C20_Sum(b, n) ==
    IF n = 0 THEN 0
    ELSE C20_Sum(b, n - 1)
           + (IF n \in DOMAIN expenses /\ expenses[n].budgetid = b
                THEN expenses[n].amount ELSE 0)

\* C20: after any sequence of expense create, update and delete
\* operations, GET /expenses/total for budget B by an owner returns the
\* exact sum of the amounts of the expenses stored under B, and 0 when B
\* has no expense.
C20_TotalIsExactSum ==
    [][ \A tok \in ReqTokens, q \in BudgetIdQuery :
          ( /\ last'.op = "handle_get_expenses_total"
            /\ handle_get_expenses_total(q, tok)
            /\ Row(tok.user_id, q.budgetid) \in user_budgets )
          => ( /\ last'.status = 200
               /\ last'.body
                    = <<[total |-> C20_Sum(q.budgetid, next_expense_id - 1)]>> )
      ]_vars
\* a total over two expenses has just been returned while an expense of
\* another budget, or none, is stored
C20_Witness ==
    /\ last.op = "handle_get_expenses_total"
    /\ last.status = 200
    /\ last.body[1].total > 0
    /\ Cardinality(DOMAIN expenses) >= 2

\* C15: a cascade delete of a budget or of a user is all-or-nothing: when
\* one of its statements fails the deletion aborts and the users, budgets,
\* user_budgets and expenses tables are exactly as they were before the
\* request.
C15_CascadeAllOrNothing ==
    [][ ( /\ task.op \in {"handle_delete_budget", "handle_delete_user"}
          /\ task'.op = "none"
          /\ last'.status # 200 )
        => Tables' = task.before ]_vars

\* C16: while a budget creation or a cascade delete of a budget or of a
\* user is in progress, a concurrent request never reads tables in which
\* only some of its statements have taken effect: what GET /budgets and
\* GET /expenses/total read is the tables as they were before the request.
C16_NoIntermediateState ==
    [][ ( /\ task.op # "none"
          /\ task' = task
          /\ last'.op \in {"handle_get_budgets", "handle_get_expenses_total"} )
        => Tables = task.before ]_vars

\* C17: budget creation is atomic with ownership: a POST /budgets that
\* replies 201 has committed the new budget row together with the
\* association of query.userid to it, a POST /budgets that fails has
\* committed neither, and in no state on the way is the budget row in the
\* table without its association.
C17_CreateBudgetAtomic ==
    [][ task.op = "handle_create_budget"
        => IF task'.op = "none" /\ last'.status = 201
             THEN /\ budgets' = task.before.budgets @@ (task.id :> task.arg)
                  /\ user_budgets' = task.before.user_budgets
                                        \cup {Row(task.userid, task.id)}
             ELSE /\ budgets' = task.before.budgets
                  /\ user_budgets' = task.before.user_budgets ]_vars
\* a POST /budgets has just failed and been rolled back, after an earlier
\* one was committed
C17_Witness ==
    /\ last.op = "handle_create_budget"
    /\ last.status = 500
    /\ task.op = "none"
    /\ budgets # << >>
    /\ \A b \in DOMAIN budgets : \E r \in user_budgets : r.budgetid = b

\* C21: PUT /users/{id} and DELETE /users/{id} with a valid token whose
\* user_id differs from id return 401 and leave every user, budget,
\* association and expense row unchanged; a user row these two routes
\* change or remove is the row of the token's own user.
C21_OnlySelf ==
    [][ last'.op \in {"handle_update_user", "handle_delete_user"}
        => \A tok \in ReqTokens, id \in UserIds :
             ( \/ handle_delete_user(id, tok)
               \/ \E nu \in NewUser : handle_update_user(id, tok, nu) )
             => /\ id # tok.user_id
                  => last'.status = 401 /\ Tables' = Tables
                /\ \A u \in DOMAIN users :
                      (u \notin DOMAIN users' \/ users'[u] # users[u])
                      => u = tok.user_id ]_vars
\* a PUT or DELETE on another user's row has just been denied
C21_Witness ==
    /\ last.op \in {"handle_update_user", "handle_delete_user"}
    /\ last.status = 401
    /\ Cardinality(DOMAIN users) >= 2
    /\ budgets # << >>

\* C22: when an authenticated user requests a budget-scoped operation on a
\* budget they are not associated with, a budget with no association at
\* all included, the handler returns the structured 401 Unauthorized
\* reply and never a rejection.
C22_StructuredDenial ==
    [][ last'.op \in {"handle_update_budget", "handle_delete_budget",
                      "handle_remove_association"}
        => \A tok \in ReqTokens, id \in BudgetIds :
             ( /\ \/ \E nb \in NewBudget : handle_update_budget(id, tok, nb)
                  \/ handle_delete_budget(id, tok)
                  \/ \E q \in UserBudgetAssociation :
                        q.budgetid = id /\ handle_remove_association(tok, q)
               /\ id \in DOMAIN budgets
               /\ Row(tok.user_id, id) \notin user_budgets )
             => ( /\ last'.status = 401
                  /\ last'.rej = ""
                  /\ last'.error = "Unauthorized" ) ]_vars

\* C23: a DELETE /user_budgets that removes the last association of a
\* budget leaves the budget row and all of its expenses in place: the
\* budget is orphaned, not deleted.
C23_OrphanKept ==
    [][ last'.op = "handle_remove_association"
        => \A tok \in ReqTokens, q \in UserBudgetAssociation :
             ( /\ handle_remove_association(tok, q)
               /\ last'.status = 200
               /\ {r \in user_budgets : r.budgetid = q.budgetid}
                    = {Row(q.userid, q.budgetid)} )
             => ( /\ \A r \in user_budgets' : r.budgetid # q.budgetid
                  /\ budgets' = budgets
                  /\ expenses' = expenses ) ]_vars
\* the last association of a budget with an expense has just been removed
C23_Witness ==
    /\ last.op = "handle_remove_association"
    /\ last.status = 200
    /\ \E e \in DOMAIN expenses :
          /\ expenses[e].budgetid \in DOMAIN budgets
          /\ \A r \in user_budgets : r.budgetid # expenses[e].budgetid

\* C24: referential integrity holds in every state reached after a
\* completed request, budget and user cascade deletes on shared budgets
\* included: every user_budgets row references an existing user and an
\* existing budget, and every expense references an existing budget.
C24_ReferentialIntegrity ==
    /\ \A r \in user_budgets :
          r.userid \in DOMAIN users /\ r.budgetid \in DOMAIN budgets
    /\ \A e \in DOMAIN expenses : expenses[e].budgetid \in DOMAIN budgets

\* a request by user U on budget B has passed its ownership check and has
\* not run its statements yet
C25_InFlight(U, B) ==
    \/ /\ pending.op = "handle_create_expense"
       /\ pending.userid = U /\ pending.arg.budgetid = B
    \/ /\ task.op = "handle_delete_budget"
       /\ task.userid = U /\ task.id = B
\* one more request with token tok on budget B, or on an expense of B, is
\* served
C25_RequestOn(tok, B) ==
    \/ \E nb \in NewBudget : handle_update_budget(B, tok, nb)
    \/ \E id \in DOMAIN expenses, ne \in NewExpense :
          /\ expenses[id].budgetid = B \/ ne.budgetid = B
          /\ handle_update_expense(id, tok, ne)
\* the rows of the budgets other than B
C25_Others(B, t) ==
    [budgets |-> [b \in DOMAIN t.budgets \ {B} |-> t.budgets[b]],
     user_budgets |-> {r \in t.user_budgets : r.budgetid # B},
     expenses |-> {<<e, t.expenses[e]>> : e \in
                     {x \in DOMAIN t.expenses : t.expenses[x].budgetid # B}}]

\* C25: the ownership check-then-mutate race is bounded.  When the
\* association of U with B is revoked while a request by U on B is in
\* flight, that request performs at most the one mutation it was issued
\* for (the POST inserts its one expense, the DELETE removes budget B with
\* its expenses and associations, and nothing else changes), and every
\* request by U on B whose ownership check begins after the revocation is
\* denied: it is not performed and no row changes.
C25_RaceBounded ==
    [][ /\ ( pending.op = "handle_create_expense" /\ pending'.op = "none" )
           => /\ users' = users /\ budgets' = budgets
              /\ user_budgets' = user_budgets
              /\ \/ expenses' = expenses
                 \/ expenses' = expenses @@ (next_expense_id :> pending.arg)
        /\ ( task.op = "handle_delete_budget" /\ task'.op = "none" )
           => /\ users' = users
              /\ C25_Others(task.id, Tables') = C25_Others(task.id, Tables)
        /\ \A tok \in issued, B \in DOMAIN budgets :
             ( /\ C25_InFlight(tok.user_id, B)
               /\ Row(tok.user_id, B) \notin user_budgets
               /\ C25_RequestOn(tok, B) )
             => ( /\ last'.status \notin {200, 201}
                  /\ Tables' = Tables ) ]_vars

\* C26: under every interleaving of a cascade delete of budget B (DELETE
\* /budgets/{B}, or DELETE /users/{U} of an owner U) with a concurrent POST
\* or PUT /expenses targeting B, once both requests have completed no
\* expense row references a deleted budget.
C26_NoExpenseOfDeletedBudget ==
    ( task.op = "none" /\ pending.op = "none" )
    => \A e \in DOMAIN expenses : expenses[e].budgetid \in DOMAIN budgets
\* a POST /expenses that passed its ownership check before a cascade
\* deleted its budget has just run its INSERT after the cascade completed
C26_Witness ==
    /\ task.op = "none" /\ pending.op = "none"
    /\ last.op = "handle_create_expense"
    /\ last.rej = "DatabaseError"
    /\ \E b \in 1..(next_budget_id - 1) : b \notin DOMAIN budgets

\* C27: registration is all-or-nothing: when POST /users answers with an
\* error (the name is taken, or the token cannot be generated because the
\* signing secret is unavailable), no user row has been persisted.
C27_RegistrationAllOrNothing ==
    [][ last'.op = "handle_create_user"
        => \A nu \in NewUser :
             ( handle_create_user(nu) /\ last'.status # 201 )
             => users' = users ]_vars

\* C29: GET /budgets/{id} with a valid token is dispatched to the
\* single-budget handler behind the ownership check: a user associated
\* with budget id gets exactly that budget's record and not the list of
\* their budgets, and a user who is not associated with it gets a denial.
C29_SingleBudget ==
    [][ last'.op \in {"handle_get_budgets", "handle_get_budget"}
        => \A tok \in issued, id \in DOMAIN budgets :
             get_budget_route(tok, id)
             => IF Row(tok.user_id, id) \in user_budgets
                  THEN /\ last'.status = 200
                       /\ last'.fields = {"id", "name", "settings"}
                       /\ last'.body = <<Budget(id)>>
                  ELSE last'.status # 200 ]_vars

\* C28: once a budget has no association row it stays that way: whatever
\* request comes next, the budget gets no association, its row is neither
\* deleted nor rewritten, and no reply carries its record.
C28_Unowned(b) == \A r \in user_budgets : r.budgetid # b
====
